---- MODULE Spec2Model ----
(***************************************************************************)
(* A model of DetectThrowsException (src/main.py): the analyzer instance   *)
(* built by __init__, the static scanner syntactic_checks over the parsed  *)
(* syntax tree, the dynamic executor dynamic_run and the aggregator        *)
(* analyze.                                                                *)
(*                                                                         *)
(* Python lists are objects: self.findings is a reference, and the report  *)
(* analyze returns holds that reference.  The model keeps the list objects *)
(* in a heap and the references as indices into it.                        *)
(***************************************************************************)
EXTENDS Integers, Sequences, FiniteSets, TLC

(***************************************************************************)
(* Bounds of the model.                                                    *)
(***************************************************************************)
\* Nodes of a syntax tree below its Module root.
MaxNodes == 6
\* Nodes of the trees of the instances called again and again.
MaxLifeNodes == 4
\* Nodes of the trees of the instances called concurrently.
MaxConcNodes == 2
\* analyze() calls on one instance.
MaxAnalyze == 2
\* Direct syntactic_checks() calls on one instance.
MaxChecks == 1

None == [none |-> TRUE]

(***************************************************************************)
(* Syntax trees, as ast.parse returns them.  A tree is the sequence of the *)
(* nodes below the Module root, numbered in source order (depth first,     *)
(* parent first); the root is node 0.  Each node has its parent, its kind, *)
(* its operator (a BinOp), its value (a Constant) and its lineno.  The     *)
(* children of a node are the nodes that name it as parent, in increasing  *)
(* number.  Leaf nodes no rule of the scanner reads (operator and context  *)
(* nodes, the arguments of a def) are left out; a statement's line is its  *)
(* rank among the statements and an expression is on its statement's line. *)
(***************************************************************************)
Operators == {"Div", "FloorDiv", "Mod", "Add"}

\* Values of an ast.Constant: 0, 1, 0.0, False and the string "0".
ConstantValues ==
    { [type |-> "int", num |-> 0], [type |-> "int", num |-> 1],
      [type |-> "float", num |-> 0], [type |-> "bool", num |-> 0],
      [type |-> "str", num |-> 0] }

NoValue == [type |-> "none", num |-> 0]

StmtKinds == {"FunctionDef", "Raise", "Expr"}

Node(k, o, v) == [parent |-> 0, kind |-> k, op |-> o, value |-> v, lineno |-> 0]

\* The forest f under a new root r.
Under(r, f) ==
    <<r>> \o [i \in 1..Len(f) |-> [f[i] EXCEPT !.parent = @ + 1]]

\* The forest f followed by the forest g.
Beside(f, g) ==
    f \o [i \in 1..Len(g) |->
            [g[i] EXCEPT !.parent = IF @ = 0 THEN 0 ELSE @ + Len(f)]]

\* The expressions of n nodes: a name, a constant, or left <op> right.
RECURSIVE ExprsOf(_)
ExprsOf(n) ==
    IF n = 1
    THEN { <<Node("Name", "", NoValue)>> }
         \cup { <<Node("Constant", "", v)>> : v \in ConstantValues }
    ELSE UNION { UNION { { Under(Node("BinOp", o, NoValue), Beside(l, r)) :
                           o \in Operators, r \in ExprsOf(n - 1 - a) } :
                         l \in { e \in ExprsOf(a) : e[1].kind # "Constant" } } :
                 a \in 1..(n - 2) }

\* The statements of n nodes: raise, raise <expr>, <binop> as a statement,
\* and def with a body; BodiesOf(n) are the statement lists of n nodes.
RECURSIVE BodiesOf(_)
StmtsOf(n) ==
    (IF n = 1 THEN { <<Node("Raise", "", NoValue)>> } ELSE {})
    \cup { Under(Node("Raise", "", NoValue), e) :
             e \in { e \in ExprsOf(n - 1) : e[1].kind # "Constant" } }
    \cup { Under(Node("Expr", "", NoValue), e) :
             e \in { e \in ExprsOf(n - 1) : e[1].kind = "BinOp" } }
    \cup { Under(Node("FunctionDef", "", NoValue), b) :
             b \in BodiesOf(n - 1) \ { <<>> } }

BodiesOf(n) ==
    IF n = 0 THEN { <<>> }
    ELSE UNION { { Beside(s, b) : s \in StmtsOf(a), b \in BodiesOf(n - a) } :
                 a \in 1..n }

RECURSIVE LineOf(_, _)
LineOf(t, i) ==
    IF t[i].kind \in StmtKinds
    THEN Cardinality({ j \in 1..i : t[j].kind \in StmtKinds })
    ELSE LineOf(t, t[i].parent)

WithLines(t) == [i \in 1..Len(t) |-> [t[i] EXCEPT !.lineno = LineOf(t, i)]]

Trees == UNION { { WithLines(t) : t \in BodiesOf(n) } : n \in 0..MaxNodes }

(***************************************************************************)
(* The target files: one that cannot be read, one that is read and does    *)
(* not parse, and one per syntax tree.                                     *)
(***************************************************************************)
ReadErrors == { "[Errno 2] No such file or directory" }
SyntaxErrors == { "invalid syntax (<unknown>, line 1)" }

Files ==
    { [read |-> "error", error |-> e] : e \in ReadErrors }
    \cup { [read |-> "ok", parse |-> "error", error |-> e] : e \in SyntaxErrors }
    \cup { [read |-> "ok", parse |-> "ok", nodes |-> t] : t \in Trees }

LifeFiles == { f \in Files : f.read = "ok" /\ f.parse = "ok" => Len(f.nodes) <= MaxLifeNodes }

(***************************************************************************)
(* ast.walk and ast.iter_child_nodes.                                      *)
(***************************************************************************)
RECURSIVE SortedSeq(_)
SortedSeq(S) ==
    IF S = {} THEN <<>>
    ELSE LET m == CHOOSE x \in S : \A y \in S : x <= y
         IN <<m>> \o SortedSeq(S \ {m})

iter_child_nodes(t, i) == SortedSeq({ j \in 1..Len(t) : t[j].parent = i })

\* ast.walk(node): todo = deque([node]); while todo: node = todo.popleft();
\* todo.extend(iter_child_nodes(node)); yield node
\* A walk that puts the children first in line (depth first), for comparison.
RECURSIVE WalkDepthFirst(_, _)
WalkDepthFirst(t, todo) ==
    IF todo = <<>> THEN <<>>
    ELSE <<Head(todo)>>
         \o WalkDepthFirst(t, iter_child_nodes(t, Head(todo)) \o Tail(todo))

RECURSIVE walk(_, _)
walk(t, todo) ==
    IF todo = <<>> THEN <<>>
    ELSE <<Head(todo)>> \o walk(t, Tail(todo) \o iter_child_nodes(t, Head(todo)))

(***************************************************************************)
(* syntactic_checks.                                                       *)
(***************************************************************************)
Finding(k, text, n) == [kind |-> k, text |-> text, line |-> n]
ErrorFinding(k, text, e) == [kind |-> k, text |-> text, error |-> e]

\* right.value == 0, as Python compares: 0, 0.0 and False equal 0.
EqualsZero(v) == v.type \in {"int", "float", "bool"} /\ v.num = 0

\* node.right: the second operand of a BinOp.
Right(t, i) == t[iter_child_nodes(t, i)[2]]

\* A rule that sees only the statements of the module body, for comparison.
IsRaiseTopLevel(t, i) == i # 0 /\ t[i].kind = "Raise" /\ t[i].parent = 0

IsRaise(t, i) == i # 0 /\ t[i].kind = "Raise"

\* A rule that leaves out floor division, for comparison.
IsDivByZeroNoFloor(t, i) ==
    /\ i # 0 /\ t[i].kind = "BinOp" /\ t[i].op \in {"Div"}
    /\ Right(t, i).kind = "Constant" /\ EqualsZero(Right(t, i).value)

IsDivByZero(t, i) ==
    /\ i # 0 /\ t[i].kind = "BinOp" /\ t[i].op \in {"Div", "FloorDiv"}
    /\ Right(t, i).kind = "Constant" /\ EqualsZero(Right(t, i).value)

IsModByZero(t, i) ==
    /\ i # 0 /\ t[i].kind = "BinOp" /\ t[i].op = "Mod"
    /\ Right(t, i).kind = "Constant" /\ EqualsZero(Right(t, i).value)

\* The findings the body of the loop appends for one node.
NodeFindings(t, i) ==
    (IF IsRaise(t, i)
     THEN <<Finding("definite-raise", "explicit raise at line", t[i].lineno)>>
     ELSE <<>>)
    \o (IF IsDivByZero(t, i)
        THEN <<Finding("definite-div-zero", "division by literal 0 at line",
                       t[i].lineno)>>
        ELSE <<>>)
    \o (IF IsModByZero(t, i)
        THEN <<Finding("definite-mod-zero", "modulo by literal 0 at line",
                       t[i].lineno)>>
        ELSE <<>>)

RECURSIVE ScanNodes(_, _)
ScanNodes(t, order) ==
    IF order = <<>> THEN <<>>
    ELSE NodeFindings(t, Head(order)) \o ScanNodes(t, Tail(order))

\* A scanner that reports nothing when there is no tree, for comparison.
syntactic_checks_silent(tr, err, list) ==
    IF tr = None THEN list
    ELSE list \o ScanNodes(tr.nodes, walk(tr.nodes, <<0>>))

\* The list self.findings after syntactic_checks(), given the list before.
syntactic_checks(tr, err, list) ==
    IF tr = None
    THEN Append(list, ErrorFinding("syntax-error", "Syntax error in code:", err))
    ELSE list \o ScanNodes(tr.nodes, walk(tr.nodes, <<0>>))

(***************************************************************************)
(* dynamic_run.  Text is a sequence of characters; the child process, as   *)
(* subprocess.run reports it, exits with a return code and its captured    *)
(* output, outlives the timeout (TimeoutExpired), or is not run at all     *)
(* (any other exception).                                                  *)
(***************************************************************************)
\* Characters of the captured text.
MaxText == 3

DefaultTimeout == 30

Whitespace == {" ", "\n"}
Chars == {"x"} \cup Whitespace

RECURSIVE TextsOf(_)
TextsOf(n) ==
    IF n = 0 THEN { <<>> }
    ELSE { Append(s, c) : s \in TextsOf(n - 1), c \in Chars }

Texts == UNION { TextsOf(n) : n \in 0..MaxText }

RECURSIVE lstrip(_)
lstrip(s) ==
    IF s # <<>> /\ Head(s) \in Whitespace THEN lstrip(Tail(s)) ELSE s

RECURSIVE rstrip(_)
rstrip(s) ==
    IF s # <<>> /\ s[Len(s)] \in Whitespace
    THEN rstrip(SubSeq(s, 1, Len(s) - 1))
    ELSE s

\* str.strip(): leading and trailing whitespace removed.
strip(s) == rstrip(lstrip(s))

ReturnCodes == {0, 1, 2, -9}
RunErrors == { "[Errno 13] Permission denied", "embedded null byte" }
Timeouts == {1, DefaultTimeout}

Procs ==
    { [end |-> "exit", returncode |-> rc, stdout |-> out, stderr |-> err] :
        rc \in ReturnCodes, out \in Texts, err \in Texts }
    \cup { [end |-> "timeout"] }
    \cup { [end |-> "error", error |-> e] : e \in RunErrors }

Str(s) == [str |-> s]
TimeoutMessage(timeout) ==
    [text |-> "Timeout after {timeout}s (possible infinite loop or hanging)",
     timeout |-> timeout]
RunErrorMessage(e) == [text |-> "Error running file:", error |-> e]

\* An executor that returns stdout as captured, for comparison.
dynamic_run_unstripped(proc, timeout) ==
    CASE proc.end = "exit" /\ proc.returncode # 0 ->
           [threw |-> TRUE, exc_info |-> Str(strip(proc.stderr)),
            timed_out |-> FALSE, stdout |-> Str(proc.stdout)]
      [] proc.end = "exit" /\ proc.returncode = 0 ->
           [threw |-> FALSE, exc_info |-> None,
            timed_out |-> FALSE, stdout |-> Str(proc.stdout)]
      [] proc.end = "timeout" ->
           [threw |-> TRUE, exc_info |-> TimeoutMessage(timeout),
            timed_out |-> TRUE, stdout |-> Str(<<>>)]
      [] proc.end = "error" ->
           [threw |-> TRUE, exc_info |-> RunErrorMessage(proc.error),
            timed_out |-> FALSE, stdout |-> Str(<<>>)]

\* An executor that does not count a timeout as thrown, for comparison.
dynamic_run_timeout_not_thrown(proc, timeout) ==
    CASE proc.end = "exit" /\ proc.returncode # 0 ->
           [threw |-> TRUE, exc_info |-> Str(strip(proc.stderr)),
            timed_out |-> FALSE, stdout |-> Str(strip(proc.stdout))]
      [] proc.end = "exit" /\ proc.returncode = 0 ->
           [threw |-> FALSE, exc_info |-> None,
            timed_out |-> FALSE, stdout |-> Str(strip(proc.stdout))]
      [] proc.end = "timeout" ->
           [threw |-> FALSE, exc_info |-> TimeoutMessage(timeout),
            timed_out |-> TRUE, stdout |-> Str(<<>>)]
      [] proc.end = "error" ->
           [threw |-> TRUE, exc_info |-> RunErrorMessage(proc.error),
            timed_out |-> FALSE, stdout |-> Str(<<>>)]

\* The dictionary dynamic_run(timeout) returns when the child ends as proc.
dynamic_run(proc, timeout) ==
    CASE proc.end = "exit" /\ proc.returncode # 0 ->
           [threw |-> TRUE, exc_info |-> Str(strip(proc.stderr)),
            timed_out |-> FALSE, stdout |-> Str(strip(proc.stdout))]
      [] proc.end = "exit" /\ proc.returncode = 0 ->
           [threw |-> FALSE, exc_info |-> None,
            timed_out |-> FALSE, stdout |-> Str(strip(proc.stdout))]
      [] proc.end = "timeout" ->
           [threw |-> TRUE, exc_info |-> TimeoutMessage(timeout),
            timed_out |-> TRUE, stdout |-> Str(<<>>)]
      [] proc.end = "error" ->
           [threw |-> TRUE, exc_info |-> RunErrorMessage(proc.error),
            timed_out |-> FALSE, stdout |-> Str(<<>>)]

(***************************************************************************)
(* The analyzer instance.                                                  *)
(***************************************************************************)
VARIABLES
    file,          \* the target file, as it is on disk
    tree,          \* self.tree: None or the parsed tree
    file_error,    \* self.file_error, Unset when the attribute is not set
    syntax_error,  \* self.syntax_error, Unset when the attribute is not set
    findings,      \* self.findings: a reference to a list of the heap
    heap,          \* the list objects
    reports,       \* the reports analyze() has returned, in order
    checks,        \* the direct syntactic_checks() calls made
    run,           \* the latest direct dynamic_run() call: child and result
    instances,     \* SpecConc: the instances, each with its fields
    threads,       \* SpecConc: the callers, each inside one analyze() call
    target         \* SpecConc: the instance each caller calls

vars == <<file, tree, file_error, syntax_error, findings, heap, reports,
          checks, run, instances, threads, target>>

concvars == <<instances, threads, target>>

Unset == "<unset>"

\* getattr(self, 'syntax_error', 'Unknown syntax error')
getattr_syntax_error(se) == IF se = Unset THEN "Unknown syntax error" ELSE se

\* The fields __init__ sets for target file f.
init(f) ==
    IF f.read = "error"
    THEN [tree |-> None, file_error |-> f.error, syntax_error |-> Unset,
          findings |-> <<ErrorFinding("file-error", "Error reading file:",
                                      f.error)>>]
    ELSE IF f.parse = "error"
    THEN [tree |-> None, file_error |-> Unset, syntax_error |-> f.error,
          findings |-> <<>>]
    ELSE [tree |-> [none |-> FALSE, nodes |-> f.nodes], file_error |-> Unset,
          syntax_error |-> Unset, findings |-> <<>>]

\* The child processes of the runs analyze() makes: one per way to end.
AnalyzeProcs ==
    { [end |-> "exit", returncode |-> 0, stdout |-> <<"x", "\n">>, stderr |-> <<>>],
      [end |-> "exit", returncode |-> 1, stdout |-> <<>>, stderr |-> <<"x", "\n">>],
      [end |-> "timeout"],
      [end |-> "error", error |-> "[Errno 13] Permission denied"] }

\* The child processes of the runs of Spec.
LifeProcs == { p \in AnalyzeProcs : p.end = "exit" }

NoRun == [proc |-> None, timeout |-> 0, result |-> None]

Constructed(f) ==
    /\ file = f
    /\ tree = init(f).tree
    /\ file_error = init(f).file_error
    /\ syntax_error = init(f).syntax_error
    /\ heap = <<init(f).findings>>
    /\ findings = 1
    /\ reports = <<>>
    /\ checks = 0
    /\ run = NoRun
    /\ instances = <<>>
    /\ threads = <<>>
    /\ target = <<>>

\* An analyze() that keeps the list as it is, for comparison.
reset_none(h, ref) == [heap |-> h, ref |-> ref]

\* An analyze() that empties the list in place (self.findings.clear()), for
\* comparison.
reset_clear(h, ref) == [heap |-> [h EXCEPT ![ref] = <<>>], ref |-> ref]

\* self.findings = []: a new list on the heap h, and the reference to it.
reset(h, ref) == [heap |-> Append(h, <<>>), ref |-> Len(h) + 1]

\* analyze(run_timeout): a new list, the scan, the run, the report.
Analyze(proc, run_timeout) ==
    /\ Len(reports) < MaxAnalyze
    /\ LET r == reset(heap, findings)
       IN /\ findings' = r.ref
          /\ heap' = [r.heap EXCEPT ![r.ref] =
                        syntactic_checks(tree, getattr_syntax_error(syntax_error), @)]
    /\ reports' = Append(reports,
          [static_findings |-> findings',
           returned |-> heap'[findings'],
           dynamic_result |-> dynamic_run(proc, run_timeout)])
    /\ UNCHANGED <<file, tree, file_error, syntax_error, checks, run, concvars>>

\* A direct call of syntactic_checks(): appends to the list self.findings names.
SyntacticChecks ==
    /\ checks < MaxChecks
    /\ heap' = [heap EXCEPT ![findings] =
                  syntactic_checks(tree, getattr_syntax_error(syntax_error), @)]
    /\ checks' = checks + 1
    /\ UNCHANGED <<file, tree, file_error, syntax_error, findings, reports, run,
                   concvars>>

\* A direct call of dynamic_run(timeout): the instance is left as it is.
DynamicRun(proc, timeout) ==
    /\ run' = [proc |-> proc, timeout |-> timeout,
               result |-> dynamic_run(proc, timeout)]
    /\ UNCHANGED <<file, tree, file_error, syntax_error, findings, heap,
                   reports, checks, concvars>>

(***************************************************************************)
(* Spec: one instance, any sequence of calls of its three methods.         *)
(***************************************************************************)
Init == \E f \in LifeFiles : Constructed(f)

Next ==
    \/ \E proc \in LifeProcs : Analyze(proc, DefaultTimeout)
    \/ SyntacticChecks
    \/ \E proc \in LifeProcs : DynamicRun(proc, DefaultTimeout)

Spec == Init /\ [][Next]_vars

(***************************************************************************)
(* SpecScan: the scanner on every tree: one call on a fresh instance.      *)
(***************************************************************************)
InitScan == \E f \in Files : Constructed(f)

NextScan ==
    \/ \E proc \in AnalyzeProcs : reports = <<>> /\ Analyze(proc, DefaultTimeout)
    \/ reports = <<>> /\ checks = 0 /\ SyntacticChecks

SpecScan == InitScan /\ [][NextScan]_vars

(***************************************************************************)
(* SpecDyn: dynamic_run on every child process and timeout.                *)
(***************************************************************************)
InitDyn == Constructed([read |-> "ok", parse |-> "ok", nodes |-> <<>>])

NextDyn ==
    /\ run = NoRun
    /\ \E proc \in Procs, timeout \in Timeouts : DynamicRun(proc, timeout)

SpecDyn == InitDyn /\ [][NextDyn]_vars

(***************************************************************************)
(* SpecConc: two callers, each making one analyze() call, on one instance  *)
(* or on two.  A call is the steps of analyze() and syntactic_checks()     *)
(* between which another thread can run: the assignment of the new list,   *)
(* for each finding the read of self.findings and the append to the list   *)
(* read, the run of the child, and the read of self.findings for the       *)
(* report.                                                                 *)
(***************************************************************************)
Threads == {"t1", "t2"}

ConcFiles ==
    { f \in Files : f.read = "ok" /\ f.parse = "ok" => Len(f.nodes) <= MaxConcNodes }

Instance(f, ref) ==
    [file |-> f, tree |-> init(f).tree, syntax_error |-> init(f).syntax_error,
     findings |-> ref]

Idle ==
    [pc |-> "idle", todo |-> <<>>, ref |-> 0, dynamic |-> None, report |-> None,
     overlapped |-> FALSE]

Active(th) == threads[th].pc \notin {"idle", "done"}

\* The findings one syntactic_checks() call on instance o appends, in order.
Appends(o) ==
    syntactic_checks(o.tree, getattr_syntax_error(o.syntax_error), <<>>)

InitConc ==
    /\ \E f1, f2 \in ConcFiles :
          /\ f1 # f2
          /\ instances = <<Instance(f1, 1), Instance(f2, 2)>>
          /\ heap = <<init(f1).findings, init(f2).findings>>
    /\ target \in { t \in [Threads -> {1, 2}] : t["t1"] = 1 }
    /\ threads = [th \in Threads |-> Idle]
    /\ file = [read |-> "ok", parse |-> "ok", nodes |-> <<>>]
    /\ tree = None
    /\ file_error = Unset
    /\ syntax_error = Unset
    /\ findings = 0
    /\ reports = <<>>
    /\ checks = 0
    /\ run = NoRun

seqvars == <<file, tree, file_error, syntax_error, findings, reports, checks, run>>

\* analyze(), line 151: self.findings = [].
Start(th) ==
    /\ threads[th].pc = "idle"
    /\ LET o == target[th]
           r == reset(heap, instances[o].findings)
           others == { u \in Threads \ {th} : target[u] = o /\ Active(u) }
       IN /\ heap' = r.heap
          /\ instances' = [instances EXCEPT ![o].findings = r.ref]
          /\ threads' = [u \in Threads |->
                IF u = th
                THEN [threads[u] EXCEPT !.pc = "scan",
                                        !.todo = Appends(instances[o]),
                                        !.overlapped = others # {}]
                ELSE IF u \in others
                THEN [threads[u] EXCEPT !.overlapped = TRUE]
                ELSE threads[u]]
    /\ UNCHANGED <<target, seqvars>>

\* syntactic_checks(): self.findings is read ...
Load(th) ==
    /\ threads[th].pc = "scan"
    /\ threads[th].todo # <<>>
    /\ threads' = [threads EXCEPT ![th].pc = "append",
                                  ![th].ref = instances[target[th]].findings]
    /\ UNCHANGED <<heap, instances, target, seqvars>>

\* ... and the finding is appended to the list that was read.
AppendFinding(th) ==
    /\ threads[th].pc = "append"
    /\ heap' = [heap EXCEPT ![threads[th].ref] = Append(@, Head(threads[th].todo))]
    /\ threads' = [threads EXCEPT ![th].pc = "scan",
                                  ![th].todo = Tail(@),
                                  ![th].ref = 0]
    /\ UNCHANGED <<instances, target, seqvars>>

\* analyze(), line 153: the scan is over, the child runs.
RunChild(th, proc) ==
    /\ threads[th].pc = "scan"
    /\ threads[th].todo = <<>>
    /\ threads' = [threads EXCEPT ![th].pc = "return",
                                  ![th].dynamic = dynamic_run(proc, DefaultTimeout)]
    /\ UNCHANGED <<heap, instances, target, seqvars>>

\* analyze(), lines 155-158: the report holds the list self.findings names now.
Return(th) ==
    /\ threads[th].pc = "return"
    /\ threads' = [threads EXCEPT
          ![th].pc = "done",
          ![th].report = [static_findings |-> instances[target[th]].findings,
                          dynamic_result |-> threads[th].dynamic]]
    /\ UNCHANGED <<heap, instances, target, seqvars>>

NextConc ==
    \E th \in Threads :
        \/ Start(th)
        \/ Load(th)
        \/ AppendFinding(th)
        \/ \E proc \in LifeProcs : RunChild(th, proc)
        \/ Return(th)

SpecConc == InitConc /\ [][NextConc]_vars

(***************************************************************************)
(* The claims.                                                             *)
(***************************************************************************)
Unreadable == file.read = "error"
Unparsable == file.read = "ok" /\ file.parse = "error"
Parsed == file.read = "ok" /\ file.parse = "ok"

KindsOf(list) == [i \in DOMAIN list |-> list[i].kind]

\* The list report i holds is no longer as it was when the call returned.
Aliased(i) == heap[reports[i].static_findings] # reports[i].returned

\* C1: for a file whose read failed in the constructor, every report of
\* analyze() has static_findings equal to exactly one finding, of kind
\* "file-error": the finding recorded at construction.
C1_FileErrorSurvives ==
    Unreadable =>
        \A i \in DOMAIN reports :
            reports[i].returned =
                <<ErrorFinding("file-error", "Error reading file:", file.error)>>

\* C2: for a file that loads and does not parse, every report of analyze()
\* has static_findings equal to exactly one finding, of kind "syntax-error"
\* and describing the stored parse error, and holds the result of a run.
C2_SyntaxErrorOnly ==
    Unparsable =>
        \A i \in DOMAIN reports :
            /\ KindsOf(reports[i].returned) = <<"syntax-error">>
            /\ reports[i].returned[1].error = file.error
            /\ reports[i].dynamic_result \in
                 { dynamic_run(p, DefaultTimeout) : p \in AnalyzeProcs }

C2_Witness ==
    /\ Unparsable
    /\ Len(reports) = 2
    /\ reports[1].dynamic_result.threw
    /\ ~reports[2].dynamic_result.threw

\* C7: any two analyze() calls on one instance return equal static_findings,
\* whatever analyze() and syntactic_checks() calls came before each (the
\* lists compared as they are when each call returns).
C7_Idempotent ==
    \A i, j \in DOMAIN reports : reports[i].returned = reports[j].returned

\* Two reports with findings, a direct syntactic_checks() between the calls.
\* (The list of the first report has grown since: see C8.)
C7_Witness ==
    /\ Len(reports) = 2
    /\ checks = 1
    /\ reports[2].returned # <<>>
    /\ Aliased(1)

\* C8: a report, once returned, is never changed by later calls on the
\* instance: its static_findings stay the list that was returned.
C8_ReportImmutable ==
    \A i \in DOMAIN reports : ~Aliased(i)

(***************************************************************************)
(* The claims about the scanner, stated on the tree itself.                *)
(***************************************************************************)
NodesOf(t) == 1..Len(t)
ChildrenOf(t, i) == { j \in NodesOf(t) : t[j].parent = i }
RightOperandOf(t, i) ==
    t[CHOOSE j \in ChildrenOf(t, i) : \A k \in ChildrenOf(t, i) : k <= j]
IsLiteralZero(n) ==
    /\ n.kind = "Constant"
    /\ n.value \in { [type |-> "int", num |-> 0], [type |-> "float", num |-> 0],
                    [type |-> "bool", num |-> 0] }

\* The operators of each zero-divisor kind.
OperatorsOf(k) ==
    IF k = "definite-div-zero" THEN {"Div", "FloorDiv"} ELSE {"Mod"}

\* The BinOp nodes of kind k's operators on line l with a literal 0 on the right.
ZeroDivisors(t, k, l) ==
    { i \in NodesOf(t) : /\ t[i].kind = "BinOp"
                         /\ t[i].op \in OperatorsOf(k)
                         /\ t[i].lineno = l
                         /\ IsLiteralZero(RightOperandOf(t, i)) }

RaisesOn(t, l) == { i \in NodesOf(t) : t[i].kind = "Raise" /\ t[i].lineno = l }

\* The findings of kind k in list that name line l.
FindingsOn(list, k, l) ==
    { i \in DOMAIN list : list[i].kind = k /\ list[i].line = l }

Lines == 0..(MaxNodes + 1)

\* C5: in every report on a parsed tree, the zero-divisor findings are, kind
\* by kind and line by line, as many as the BinOp nodes on that line whose
\* operator is of the kind (/ and // for "definite-div-zero", % for
\* "definite-mod-zero") and whose right operand is a literal constant equal
\* to 0: one finding for each such node and none for any other.
C5_ZeroDivisorFindings ==
    Parsed =>
        \A r \in DOMAIN reports :
            \A k \in {"definite-div-zero", "definite-mod-zero"}, l \in Lines :
                Cardinality(FindingsOn(reports[r].returned, k, l))
                    = Cardinality(ZeroDivisors(file.nodes, k, l))

\* A report on a tree with a division by a literal 0 under a division whose
\* right operand is that division, not a literal.
C5_Witness ==
    /\ Parsed
    /\ reports # <<>>
    /\ \E i, j \in NodesOf(file.nodes) :
          /\ file.nodes[i].kind = "BinOp" /\ file.nodes[i].op = "FloorDiv"
          /\ file.nodes[j].kind = "BinOp" /\ file.nodes[j].op = "Div"
          /\ RightOperandOf(file.nodes, i) = file.nodes[j]
          /\ IsLiteralZero(RightOperandOf(file.nodes, j))
    /\ Len(reports[1].returned) = 1
    /\ reports[1].returned[1].kind = "definite-div-zero"

\* C6: in every report on a parsed tree, the "definite-raise" findings are,
\* line by line, as many as the raise statements on that line, at any depth,
\* and each names the line in its description.
C6_RaiseFindings ==
    Parsed =>
        \A r \in DOMAIN reports :
            /\ \A l \in Lines :
                  Cardinality(FindingsOn(reports[r].returned, "definite-raise", l))
                      = Cardinality(RaisesOn(file.nodes, l))
            /\ \A i \in DOMAIN reports[r].returned :
                  reports[r].returned[i].kind = "definite-raise"
                      => reports[r].returned[i].text = "explicit raise at line"

\* A report on a tree with a raise inside a def inside a def.
C6_Witness ==
    /\ Parsed
    /\ reports # <<>>
    /\ \E i \in NodesOf(file.nodes) :
          /\ file.nodes[i].kind = "Raise"
          /\ file.nodes[i].parent # 0
          /\ file.nodes[file.nodes[i].parent].parent # 0
          /\ FindingsOn(reports[1].returned, "definite-raise",
                        file.nodes[i].lineno) # {}

\* The depth of a node, and the nodes in depth-first and in level order.
RECURSIVE DepthOf(_, _)
DepthOf(t, i) == IF i = 0 THEN 0 ELSE 1 + DepthOf(t, t[i].parent)

PreOrder(t) == [p \in 1..(Len(t) + 1) |-> p - 1]

RECURSIVE LevelsFrom(_, _)
LevelsFrom(t, d) ==
    LET level == { i \in 0..Len(t) : DepthOf(t, i) = d }
    IN IF level = {} THEN <<>> ELSE SortedSeq(level) \o LevelsFrom(t, d + 1)

LevelOrder(t) == LevelsFrom(t, 0)

\* order visits every node of t once, each parent before its children.
VisitsAllOnce(t, order) ==
    /\ Len(order) = Len(t) + 1
    /\ { order[p] : p \in DOMAIN order } = 0..Len(t)
    /\ \A p, q \in DOMAIN order :
          order[q] # 0 /\ t[order[q]].parent = order[p] => p < q

\* C10 as claimed: the scanner visits every node once, parent before
\* children, and the findings of every report are in depth-first pre-order
\* of their nodes.
C10_DepthFirstOrder ==
    Parsed =>
        /\ VisitsAllOnce(file.nodes, walk(file.nodes, <<0>>))
        /\ \A r \in DOMAIN reports :
              reports[r].returned = ScanNodes(file.nodes, PreOrder(file.nodes))

\* C10 as amended: the scanner visits every node once, parent before
\* children, level by level (breadth first), and the findings of every
\* report are in that order of their nodes.
C10_BreadthFirstOrder ==
    Parsed =>
        /\ VisitsAllOnce(file.nodes, walk(file.nodes, <<0>>))
        /\ walk(file.nodes, <<0>>) = LevelOrder(file.nodes)
        /\ \A r \in DOMAIN reports :
              reports[r].returned = ScanNodes(file.nodes, LevelOrder(file.nodes))

\* A report whose findings are not in depth-first order.
C10_Witness ==
    /\ Parsed
    /\ reports # <<>>
    /\ reports[1].returned # ScanNodes(file.nodes, PreOrder(file.nodes))

(***************************************************************************)
(* The claims about dynamic_run, stated on the call and what it returned.  *)
(***************************************************************************)
Ran == run # NoRun

IsText(v) == DOMAIN v = {"str"} \/ DOMAIN v = {"text", "error"}
IsTimeoutText(v, timeout) ==
    DOMAIN v = {"text", "timeout"} /\ v.timeout = timeout

ShapeClean(r) == ~r.threw /\ r.exc_info = None /\ ~r.timed_out
ShapeTimedOut(r, timeout) ==
    r.threw /\ r.timed_out /\ IsTimeoutText(r.exc_info, timeout)
ShapeThrew(r) == r.threw /\ ~r.timed_out /\ IsText(r.exc_info)

\* C3: every value dynamic_run returns has exactly one of three shapes:
\* (a) threw false, exc_info absent, timed_out false; (b) threw true,
\* timed_out true, exc_info the timeout message; (c) threw true, timed_out
\* false, exc_info text.  So timed_out implies threw, and exc_info is absent
\* exactly when threw is false.
C3_ResultShapes ==
    Ran =>
        LET r == run.result
            shapes == << ShapeClean(r), ShapeTimedOut(r, run.timeout),
                         ShapeThrew(r) >>
        IN /\ Cardinality({ i \in 1..3 : shapes[i] }) = 1
           /\ r.timed_out => r.threw
           /\ r.exc_info = None <=> ~r.threw

\* A run that timed out.
C3_Witness == Ran /\ run.proc.end = "timeout" /\ run.result.timed_out

AllWhitespace(s) == \A i \in DOMAIN s : s[i] \in Whitespace

\* s is full without the whitespace at its two ends.
IsTrimOf(s, full) ==
    /\ s # <<>> => s[1] \notin Whitespace /\ s[Len(s)] \notin Whitespace
    /\ \E a \in 0..Len(full) :
          /\ a + Len(s) <= Len(full)
          /\ SubSeq(full, a + 1, a + Len(s)) = s
          /\ AllWhitespace(SubSeq(full, 1, a))
          /\ AllWhitespace(SubSeq(full, a + Len(s) + 1, Len(full)))

\* C4: the result is decided by how the one child process ended: threw is
\* false exactly when it exited with status 0, timed_out is true exactly
\* when the timeout expired, stdout is the captured output trimmed when it
\* exited and the empty string when it timed out or could not be run.
C4_ResultByOutcome ==
    Ran =>
        LET r == run.result
            p == run.proc
        IN /\ ~r.threw <=> (p.end = "exit" /\ p.returncode = 0)
           /\ r.timed_out <=> p.end = "timeout"
           /\ p.end = "exit" =>
                 DOMAIN r.stdout = {"str"} /\ IsTrimOf(r.stdout.str, p.stdout)
           /\ p.end # "exit" => r.stdout = Str(<<>>)

\* A child that exited with whitespace around its output.
C4_Witness ==
    /\ Ran
    /\ run.proc.end = "exit"
    /\ run.proc.returncode # 0
    /\ run.proc.stdout = <<" ", "x", "\n">>
    /\ run.result.stdout = Str(<<"x">>)

(***************************************************************************)
(* The claim about concurrent calls.                                       *)
(***************************************************************************)
\* What the report of a finished call shows as static_findings now.
Shown(th) == heap[threads[th].report.static_findings]

\* What analyze() returns on the caller's instance when it runs alone.
Sequential(th) == Appends(instances[target[th]])

Finished(th) == threads[th].pc = "done"

\* C9: the report of a finished call shows other static_findings than a
\* sequential analyze() returns only if another call on the same instance
\* ran during it: calls on two instances never interfere, and two calls on
\* one instance can (the witness).
C9_OnlyOverlappedCallsInterfere ==
    \A th \in Threads :
        Finished(th) /\ Shown(th) # Sequential(th) =>
            /\ threads[th].overlapped
            /\ \E u \in Threads \ {th} : target[u] = target[th]

\* Two finished calls on one instance over a file with a finding, and a
\* report that shows other findings than a sequential call returns.
C9_Witness ==
    /\ target["t1"] = target["t2"]
    /\ \A th \in Threads : Finished(th) /\ Sequential(th) # <<>>
    /\ \E th \in Threads : Shown(th) # Sequential(th)

====
